---- MODULE Spec2Model ----
(***************************************************************************)
(* coq2vec: the CoqRNNVectorizer object (vocabulary, encoder, decoder),    *)
(* its training loop, persistence and inference, and the pure helpers      *)
(* get_symbols and normalize_sentence_length.                              *)
(*                                                                         *)
(* Tensors are modelled by their index contents; the numeric values of the *)
(* network parameters are abstracted to the number of optimizer steps      *)
(* applied to them, and tensor shapes are not modelled. An embedding table *)
(* of n rows accepts indices 0..n-1. Exceptions are modelled where the     *)
(* source itself decides them: an unbound name, a failed assert, a         *)
(* division by zero, an index outside a table or an empty tensor.          *)
(***************************************************************************)
EXTENDS Integers, Sequences, FiniteSets, TLC

VARIABLES
    symbol_mapping,   \* self.symbol_mapping : Optional[Dict[str,int]]
    model,            \* self.model          : Optional[EncoderRNN]
    _decoder,         \* self._decoder       : Optional[DecoderRNN]
    files,            \* the file system seen by save_weights / load_weights
    F_bound,          \* whether the global name F is bound when forward runs
    pc,               \* position of the (single) thread of control
    lastOp,           \* public operation most recently entered
    completed,        \* operations among train, load_weights that have
                      \* returned normally on the object in use
    model_path,       \* save_weights / load_weights: argument of the last call
    term_text,        \* term_to_vector: argument of the last call
    err,              \* exception raised by lastOp, or "None"
    terms,            \* train: the corpus argument
    n_epochs,         \* train: argument
    batch_size,       \* train: argument
    print_every,      \* train: argument
    term_tensors,     \* train: normalized index sequences, one per term
    dataset_size,     \* train: local of line 91
    encoder,          \* train: local of line 93
    decoder,          \* train: local of line 94
    epoch,            \* train: loop variable of line 100
    batch_num,        \* train: loop variable of line 103
    remaining,        \* DataLoader: indices not yet served in this epoch
    data_batch,       \* train: the batch being processed
    di,               \* autoencoderBatchLoss: decode loop variable
    decoder_input,    \* autoencoderBatchLoss: token fed to the next step
    loss_terms,       \* autoencoderBatchLoss: criterion terms summed so far
    steps,            \* optimizer steps taken in the current epoch
    reports,          \* progress lines printed by the current train call
    yielded,          \* values train has handed to an iterating caller
    runs,             \* train calls made so far (identity of the networks)
    fed,              \* term_to_vector: index sequence fed to the encoder
    vec,              \* term_to_vector: returned vector (abstract)
    sentence,         \* normalize_sentence_length: argument
    target_length,    \* normalize_sentence_length: argument
    fill_value,       \* normalize_sentence_length: argument
    normalized        \* normalize_sentence_length: result

vars == <<symbol_mapping, model, _decoder, files, F_bound, pc, lastOp, err,
          completed, model_path, term_text,
          terms, n_epochs, batch_size, print_every, term_tensors,
          dataset_size, encoder, decoder, epoch, batch_num, remaining,
          data_batch, di, decoder_input, loss_terms, steps, reports,
          yielded, runs, fed, vec, sentence, target_length, fill_value, normalized>>

objVars == <<symbol_mapping, model, _decoder>>
trainArgs == <<terms, n_epochs, batch_size, print_every>>
trainLocals == <<term_tensors, dataset_size, encoder, decoder, epoch,
                 batch_num, remaining, data_batch, steps, reports, runs>>
lossLocals == <<di, decoder_input, loss_terms>>
normVars == <<sentence, target_length, fill_value, normalized>>
inferVars == <<fed, vec, term_text>>

----------------------------------------------------------------------------
(* Program constants *)

EOS_token == 1
SOS_token == 0

(* Bounds of the model *)

MaxTerms == 3        \* corpus size N ranges over 0..MaxTerms
MaxEpochs == 2       \* n_epochs ranges over 0..MaxEpochs
MaxBatch == 3        \* batch_size ranges over 1..MaxBatch
MaxPrintEvery == 2   \* print_every ranges over 1..MaxPrintEvery
MaxForce == 1        \* force_max_length ranges over 0..MaxForce (0: not given)
MaxSentence == 3     \* normalize_sentence_length: len(sentence) <= MaxSentence
MaxTarget == 4       \* normalize_sentence_length: target_length <= MaxTarget
MaxIndex == 2        \* normalize_sentence_length: elements and fill in 0..MaxIndex

----------------------------------------------------------------------------
(* Optional[T]: None is the empty sequence, a value x is <<x>> *)

None == <<>>
Some(x) == <<x>>
IsNone(o) == o = <<>>
Get(o) == o[1]

Range(f) == {f[x] : x \in DOMAIN f}

Min(a, b) == IF a < b THEN a ELSE b

----------------------------------------------------------------------------
(* get_symbols (lines 207-214), on strings over letters, '+', '-', '>' and  *)
(* blank. A string is a sequence of characters, a symbol a non-empty        *)
(* sequence of characters. re.sub surrounds every match of symbols_regexp  *)
(* with blanks and split() cuts at blanks; on this alphabet the matches    *)
(* are '++', '+', '->' and a '-' not followed by '>'.                      *)

Flush(word, acc) == IF word = <<>> THEN acc ELSE Append(acc, word)

RECURSIVE Scan(_, _, _, _)
Scan(string, i, word, acc) ==
    IF i > Len(string) THEN Flush(word, acc)
    ELSE LET c == string[i]
             nxt == IF i < Len(string) THEN string[i + 1] ELSE ""
         IN  IF c = " " THEN Scan(string, i + 1, <<>>, Flush(word, acc))
             ELSE IF c = "+" /\ nxt = "+"
                  THEN Scan(string, i + 2, <<>>, Append(Flush(word, acc), <<"+", "+">>))
             ELSE IF c = "+"
                  THEN Scan(string, i + 1, <<>>, Append(Flush(word, acc), <<"+">>))
             ELSE IF c = "-" /\ nxt = ">"
                  THEN Scan(string, i + 2, <<>>, Append(Flush(word, acc), <<"-", ">">>))
             ELSE IF c = "-"
                  THEN Scan(string, i + 1, <<>>, Append(Flush(word, acc), <<"-">>))
             ELSE Scan(string, i + 1, Append(word, c), acc)

get_symbols(string) == Scan(string, 1, <<>>, <<>>)

----------------------------------------------------------------------------
(* normalize_sentence_length (lines 231-237) *)

Fill(n, v) == [i \in 1..n |-> v]

normalize_sentence_length_padTarget(s, L, fill) ==
    IF Len(s) > L THEN SubSeq(s, 1, L)
    ELSE IF Len(s) < L THEN s \o Fill(L, fill)
    ELSE s

normalize_sentence_length(s, L, fill) ==
    IF Len(s) > L THEN SubSeq(s, 1, L)
    ELSE IF Len(s) < L THEN s \o Fill(L - Len(s), fill)
    ELSE s

----------------------------------------------------------------------------
(* Inputs *)

Str_a == <<"a">>
Str_a_plus == <<"a", "+">>
Str_a_plus_b == <<"a", "+", "b">>
Str_arrow == <<"-", ">">>
Str_b_arrow_a == <<"b", "-", ">", "a">>

TermSet == {Str_a, Str_a_plus}
InferSet == {Str_a_plus_b, Str_arrow, Str_b_arrow_a}
HiddenSizes == {2}
Paths == {"w.dat"}

SeqsUpTo(S, n) == UNION {[1..k -> S] : k \in 0..n}

Corpora == SeqsUpTo(TermSet, MaxTerms)

----------------------------------------------------------------------------
(* train, lines 63-73: the vocabulary *)

TokenSet(corpus) == UNION {Range(get_symbols(corpus[i])) : i \in DOMAIN corpus}

MaxLengthSoFar(corpus) ==
    LET lens == {Len(get_symbols(corpus[i])) : i \in DOMAIN corpus}
    IN  IF lens = {} THEN 0 ELSE CHOOSE m \in lens : \A l \in lens : l <= m

RECURSIVE Concat(_)
Concat(seqs) == IF seqs = <<>> THEN <<>> ELSE Head(seqs) \o Concat(Tail(seqs))

(* line 70, with the symbols collected in a list instead of a set *)
TokenVocabs_noSet(corpus) ==
    {Concat([i \in DOMAIN corpus |-> get_symbols(corpus[i])])}

(* lines 63-70: list(token_set) lists the set, each symbol once, in an     *)
(* order the interpreter chooses                                           *)
TokenVocabs(corpus) ==
    {v \in [1..Cardinality(TokenSet(corpus)) -> TokenSet(corpus)] :
        Range(v) = TokenSet(corpus)}

(* lines 71-73: for idx, symbol in enumerate(token_vocab): a later         *)
(* assignment to the same key replaces an earlier one                      *)
SymbolMapping(token_vocab) ==
    [symbol \in Range(token_vocab) |->
        (CHOOSE i \in DOMAIN token_vocab :
            /\ token_vocab[i] = symbol
            /\ \A j \in DOMAIN token_vocab : token_vocab[j] = symbol => j <= i) - 1]

(* lines 74-77 *)
MaxTermLength(force_max_length, max_length_so_far) ==
    IF force_max_length # 0
    THEN Min(force_max_length, max_length_so_far)
    ELSE max_length_so_far

(* [mapping[symb] for symb in get_symbols(term) if symb in mapping] *)
KnownIndices(mapping, string) ==
    LET syms == get_symbols(string)
    IN  [i \in 1..Len(SelectSeq(syms, LAMBDA s : s \in DOMAIN mapping))
           |-> mapping[SelectSeq(syms, LAMBDA s : s \in DOMAIN mapping)[i]]]

(* lines 79-85 *)
TermTensors(mapping, corpus, max_term_length) ==
    [i \in DOMAIN corpus |->
        Append(normalize_sentence_length(KnownIndices(mapping, corpus[i]),
                                         max_term_length, EOS_token),
               EOS_token)]

(* nn.Embedding(n, hidden_size): a table of n rows; a lookup of an index   *)
(* outside 0..n-1 raises IndexError (lines 143, 148, 163, 169)             *)
EmbeddingOK(n, indices) == \A i \in DOMAIN indices : indices[i] \in 0..(n - 1)

(* EncoderRNN(input_size, hidden_size), lines 139-144 *)
EncoderRNN(id, input_size, hidden_size) ==
    [id |-> id, input_size |-> input_size, hidden_size |-> hidden_size, updates |-> 0]

(* DecoderRNN(hidden_size, output_size), lines 160-166 *)
DecoderRNN(id, hidden_size, output_size) ==
    [id |-> id, output_size |-> output_size, hidden_size |-> hidden_size, updates |-> 0]

NoNet == [id |-> 0, input_size |-> 0, hidden_size |-> 0, updates |-> 0]
NoDec == [id |-> 0, output_size |-> 0, hidden_size |-> 0, updates |-> 0]

----------------------------------------------------------------------------
(* Initial states *)

InitObject ==
    /\ symbol_mapping = None        \* line 44
    /\ model = None                 \* line 45
    /\ _decoder = None              \* line 46
    /\ lastOp = "__init__"
    /\ err = "NameError"            \* line 48: model_path is not defined
    /\ completed = {}
    /\ model_path = "" /\ term_text = <<>>

InitTrain ==
    /\ terms = <<>> /\ n_epochs = 0 /\ batch_size = 0 /\ print_every = 0
    /\ term_tensors = <<>> /\ dataset_size = 0
    /\ encoder = NoNet /\ decoder = NoDec
    /\ epoch = 0 /\ batch_num = 0 /\ remaining = {} /\ data_batch = {}
    /\ di = 0 /\ decoder_input = SOS_token /\ loss_terms = 0
    /\ steps = 0 /\ reports = 0 /\ yielded = <<>> /\ runs = 0

InitInfer == fed = <<>> /\ vec = None

InitNorm ==
    /\ sentence = <<>> /\ target_length = 0 /\ fill_value = 0
    /\ normalized = <<>>

(* The module binds no name F: lines 1-15 import none and nothing assigns *)
(* one, so F_bound is FALSE for a program that only imports coq2vec. It is *)
(* TRUE for a program that binds coq2vec.F itself before training; the     *)
(* steps after the first decoder call exist only in such a program.        *)
Init ==
    /\ InitObject
    /\ files = [p \in Paths |-> None]
    /\ F_bound \in BOOLEAN
    /\ pc = "idle"
    /\ InitTrain /\ InitInfer /\ InitNorm

----------------------------------------------------------------------------
(* An exception raised inside train unwinds its frame with err set. *)
Raise(e) == pc' = "exit" /\ err' = e

(* train, lines 58-99: vocabulary, tensors, loader, networks. A behaviour  *)
(* holds one training run, as the driver test_train.py does.               *)
Train(corpus, hidden_size, epochs, bsize, pevery, force_max_length) ==
    /\ pc = "idle"
    /\ runs = 0
    /\ lastOp' = "train"
    /\ terms' = corpus /\ n_epochs' = epochs
    /\ batch_size' = bsize /\ print_every' = pevery
    /\ \E token_vocab \in TokenVocabs(corpus) :
         LET mapping == SymbolMapping(token_vocab)
             max_term_length ==
                 MaxTermLength(force_max_length, MaxLengthSoFar(corpus))
             tensors == TermTensors(mapping, corpus, max_term_length)
             vsize == Len(token_vocab)
         IN  /\ symbol_mapping' = Some(mapping)
             /\ term_tensors' = tensors
             /\ runs' = runs + 1
             /\ IF Len(tensors) = 0
                THEN \* line 90: term_tensors[0] of a tensor without rows
                     /\ Raise("IndexError")
                     /\ UNCHANGED <<dataset_size, encoder, decoder>>
                ELSE /\ dataset_size' = (Len(tensors[1]) \div bsize) * bsize
                     /\ encoder' = EncoderRNN(runs + 1, vsize, hidden_size)
                     /\ decoder' = DecoderRNN(runs + 1, hidden_size, vsize)
                     /\ pc' = "epoch" /\ err' = "None"
    /\ epoch' = 0 /\ batch_num' = 0 /\ steps' = 0 /\ reports' = 0
    /\ remaining' = {} /\ data_batch' = {}
    /\ fed' = <<>> /\ vec' = None
    /\ UNCHANGED <<model, _decoder, files, F_bound, yielded>>
    /\ model_path' = "" /\ term_text' = <<>>
    /\ UNCHANGED <<completed, lossLocals, normVars>>

(* line 100-102: head of the epoch loop; when the range is exhausted train *)
(* returns None (lines 120-121)                                            *)
EpochHead ==
    /\ pc = "epoch"
    /\ IF epoch < n_epochs
       THEN /\ remaining' = DOMAIN term_tensors   \* a fresh shuffle
            /\ batch_num' = 0 /\ steps' = 0
            /\ pc' = "next_batch"
       ELSE /\ pc' = "exit"
            /\ UNCHANGED <<remaining, batch_num, steps>>
    /\ UNCHANGED <<objVars, files, F_bound, lastOp, err, trainArgs, yielded>>
    /\ UNCHANGED <<completed, model_path>>
    /\ UNCHANGED <<term_tensors, dataset_size, encoder, decoder, epoch,
                   data_batch, reports, runs>>
    /\ UNCHANGED <<lossLocals, inferVars, normVars>>

(* line 103: the DataLoader (shuffle=True, drop_last=True) serves batch_size *)
(* terms not yet served in this epoch, or stops; lines 118-119 after the    *)
(* last batch                                                              *)
NextBatch ==
    /\ pc = "next_batch"
    /\ IF Cardinality(remaining) >= batch_size
       THEN /\ \E b \in SUBSET remaining :
                 /\ Cardinality(b) = batch_size
                 /\ data_batch' = b
                 /\ remaining' = remaining \ b
            /\ batch_num' = batch_num + 1
            /\ pc' = "zero_grad"
            /\ UNCHANGED <<model, _decoder, epoch>>
       ELSE /\ model' = Some(encoder)
            /\ _decoder' = Some(decoder)
            /\ epoch' = epoch + 1
            /\ pc' = "epoch"
            /\ UNCHANGED <<data_batch, remaining, batch_num>>
    /\ UNCHANGED <<symbol_mapping, files, F_bound, lastOp, err, trainArgs, yielded>>
    /\ UNCHANGED <<completed, model_path>>
    /\ UNCHANGED <<term_tensors, dataset_size, encoder, decoder, steps, reports, runs>>
    /\ UNCHANGED <<lossLocals, inferVars, normVars>>

trainStepFrame ==
    /\ UNCHANGED <<symbol_mapping, files, F_bound, lastOp, trainArgs, yielded>>
    /\ UNCHANGED <<completed, model_path>>
    /\ UNCHANGED <<term_tensors, dataset_size, epoch, batch_num, remaining,
                   data_batch, runs>>
    /\ UNCHANGED <<inferVars, normVars>>

(* line 104: optimizer.zero_grad() *)
ZeroGrad ==
    /\ pc = "zero_grad"
    /\ pc' = "loss"
    /\ UNCHANGED <<model, _decoder, err, encoder, decoder, steps, reports>>
    /\ UNCHANGED lossLocals
    /\ trainStepFrame

(* autoencoderBatchLoss, lines 181-193: the encoder pass over data *)
LossEncode ==
    /\ pc = "loss"
    /\ loss_terms' = 0
    /\ di' = 0
    /\ decoder_input' = SOS_token
    /\ IF \A i \in data_batch : EmbeddingOK(encoder.input_size, term_tensors[i])
       THEN pc' = "decode" /\ UNCHANGED err
       ELSE Raise("IndexError")
    /\ UNCHANGED <<model, _decoder, encoder, decoder, steps, reports>>
    /\ trainStepFrame

(* DecoderRNN.forward, lines 168-172: the embedding lookup, then F.relu;   *)
(* the result is the set of tokens topk(1) can pick, or an exception       *)
Forward(dec, input, fbound) ==
    IF ~EmbeddingOK(dec.output_size, <<input>>)
    THEN [exc |-> "IndexError", tokens |-> {}]
    ELSE IF ~fbound
    THEN [exc |-> "NameError", tokens |-> {}]
    ELSE [exc |-> "None", tokens |-> 0..(dec.output_size - 1)]

(* autoencoderBatchLoss, lines 195-204: target_length = data.size(0) *)
DecodeStep ==
    /\ pc = "decode"
    /\ IF di < Cardinality(data_batch)
       THEN LET out == Forward(decoder, decoder_input, F_bound)
            IN  IF out.exc # "None"
                THEN /\ Raise(out.exc)
                     /\ UNCHANGED lossLocals
                ELSE \E topi \in out.tokens :
                       /\ decoder_input' = topi
                       /\ loss_terms' = loss_terms + 1
                       /\ IF topi = EOS_token
                          THEN pc' = "backward" /\ UNCHANGED di
                          ELSE pc' = "decode" /\ di' = di + 1
                       /\ UNCHANGED err
       ELSE /\ pc' = "backward"
            /\ UNCHANGED <<lossLocals, err>>
    /\ UNCHANGED <<model, _decoder, encoder, decoder, steps, reports>>
    /\ trainStepFrame

(* line 106: loss.backward() *)
Backward ==
    /\ pc = "backward"
    /\ pc' = "step"
    /\ UNCHANGED <<model, _decoder, err, encoder, decoder, steps, reports>>
    /\ UNCHANGED lossLocals
    /\ trainStepFrame

(* lines 107-108: optimizer.step() updates the parameters in place, so an  *)
(* encoder already published as self.model changes with it                 *)
OptimizerStep ==
    /\ pc = "step"
    /\ encoder' = [encoder EXCEPT !.updates = @ + 1]
    /\ decoder' = [decoder EXCEPT !.updates = @ + 1]
    /\ model' = IF model = Some(encoder) THEN Some(encoder') ELSE model
    /\ _decoder' = IF _decoder = Some(decoder) THEN Some(decoder') ELSE _decoder
    /\ steps' = steps + 1
    /\ pc' = "report"
    /\ UNCHANGED <<err, reports>>
    /\ UNCHANGED lossLocals
    /\ trainStepFrame

(* lines 109-117: the progress line *)
Report ==
    /\ pc = "report"
    /\ IF batch_num % print_every = 0
       THEN IF dataset_size * n_epochs = 0
            THEN \* line 112: items_processed / (dataset_size * n_epochs)
                 Raise("ZeroDivisionError") /\ UNCHANGED reports
            ELSE reports' = reports + 1 /\ pc' = "next_batch" /\ UNCHANGED err
       ELSE pc' = "next_batch" /\ UNCHANGED <<reports, err>>
    /\ UNCHANGED <<model, _decoder, encoder, decoder, steps>>
    /\ UNCHANGED lossLocals
    /\ trainStepFrame

(* train returns or unwinds: its arguments and locals are gone; the      *)
(* networks live on only through self.model and self._decoder              *)
ExitTrain ==
    /\ pc = "exit"
    /\ pc' = "idle"
    /\ terms' = <<>> /\ n_epochs' = 0 /\ batch_size' = 0 /\ print_every' = 0
    /\ term_tensors' = <<>> /\ dataset_size' = 0
    /\ encoder' = NoNet /\ decoder' = NoDec
    /\ epoch' = 0 /\ batch_num' = 0 /\ remaining' = {} /\ data_batch' = {}
    /\ di' = 0 /\ decoder_input' = SOS_token /\ loss_terms' = 0
    /\ steps' = 0 /\ reports' = 0
    /\ completed' = IF err = "None" THEN completed \cup {"train"} ELSE completed
    /\ UNCHANGED <<objVars, files, F_bound, lastOp, err, yielded, runs>>
    /\ UNCHANGED <<model_path, inferVars, normVars>>

----------------------------------------------------------------------------
callFrame ==
    /\ UNCHANGED <<F_bound, trainArgs, trainLocals, yielded, lossLocals, normVars>>

(* save_weights, lines 52-57 *)
SaveWeights(path) ==
    /\ pc = "idle"
    /\ lastOp' = "save_weights" /\ err' = "None" /\ pc' = "idle"
    /\ files' = [files EXCEPT ![path] =
                    Some(<<symbol_mapping, model, _decoder>>)]
    /\ model_path' = path
    /\ fed' = <<>> /\ vec' = None
    /\ term_text' = <<>>
    /\ UNCHANGED <<objVars, completed>>
    /\ callFrame

(* load_weights, lines 49-51 *)
LoadWeights(path) ==
    /\ pc = "idle"
    /\ lastOp' = "load_weights" /\ err' = "None" /\ pc' = "idle"
    /\ model_path' = path
    /\ completed' = completed \cup {"load_weights"}
    /\ fed' = <<>> /\ vec' = None
    /\ term_text' = <<>>
    /\ UNCHANGED <<objVars, files>>
    /\ callFrame

(* term_to_vector, lines 123-136, as a function of the object's fields:  *)
(* the exception raised, the index sequence fed to the encoder and the     *)
(* vector returned (the encoder's final hidden state, determined by the    *)
(* encoder's parameters and the sequence fed)                              *)
Vectorize(mapping, enc, text) ==
    IF IsNone(mapping) \/ Get(mapping) = <<>>
    THEN \* line 123: assert self.symbol_mapping (None and {} are falsy)
         [exc |-> "AssertionError", fed |-> <<>>, vec |-> None]
    ELSE IF IsNone(enc)
    THEN \* line 124: assert self.model
         [exc |-> "AssertionError", fed |-> <<>>, vec |-> None]
    ELSE LET term_tensor == Append(KnownIndices(Get(mapping), text), EOS_token)
         IN  IF EmbeddingOK(Get(enc).input_size, term_tensor)
             THEN [exc |-> "None", fed |-> term_tensor,
                   vec |-> Some([params |-> Get(enc), input |-> term_tensor])]
             ELSE [exc |-> "IndexError", fed |-> term_tensor, vec |-> None]

(* term_to_vector, lines 122-136 *)
TermToVector(text) ==
    /\ pc = "idle"
    /\ lastOp' = "term_to_vector" /\ pc' = "idle"
    /\ term_text' = text
    /\ LET r == Vectorize(symbol_mapping, model, text)
       IN  err' = r.exc /\ fed' = r.fed /\ vec' = r.vec
    /\ model_path' = ""
    /\ UNCHANGED <<objVars, files, completed>>
    /\ callFrame

(* CoqRNNVectorizer(), lines 43-48: a new object replaces the one in use *)
Construct ==
    /\ pc = "idle"
    /\ lastOp # "__init__"
    /\ symbol_mapping' = None /\ model' = None /\ _decoder' = None
    /\ lastOp' = "__init__" /\ err' = "NameError" /\ pc' = "idle"
    /\ completed' = {}
    /\ fed' = <<>> /\ vec' = None
    /\ model_path' = "" /\ term_text' = <<>>
    /\ UNCHANGED files
    /\ callFrame

Next ==
    \/ \E corpus \in Corpora, h \in HiddenSizes, e \in 0..MaxEpochs,
          b \in 1..MaxBatch, p \in 1..MaxPrintEvery, f \in 0..MaxForce :
          Train(corpus, h, e, b, p, f)
    \/ EpochHead
    \/ NextBatch
    \/ ZeroGrad
    \/ LossEncode
    \/ DecodeStep
    \/ Backward
    \/ OptimizerStep
    \/ Report
    \/ ExitTrain
    \/ \E path \in Paths : SaveWeights(path)
    \/ \E path \in Paths : LoadWeights(path)
    \/ \E t \in InferSet : TermToVector(t)
    \/ Construct

Spec == Init /\ [][Next]_vars

----------------------------------------------------------------------------
(* normalize_sentence_length on its own: the arguments are drawn from the  *)
(* bounded sets, the action applies the function                           *)

InitNormalize ==
    /\ InitObject
    /\ files = [p \in Paths |-> None]
    /\ F_bound = FALSE
    /\ pc = "norm_call"
    /\ InitTrain /\ InitInfer
    /\ sentence \in SeqsUpTo(0..MaxIndex, MaxSentence)
    /\ target_length \in 0..MaxTarget
    /\ fill_value \in 0..MaxIndex
    /\ normalized = <<>>

Normalize ==
    /\ pc = "norm_call"
    /\ normalized' = normalize_sentence_length(sentence, target_length, fill_value)
    /\ pc' = "norm_done"
    /\ UNCHANGED <<objVars, files, F_bound, lastOp, err, completed, model_path>>
    /\ UNCHANGED <<trainArgs, trainLocals, lossLocals, yielded, inferVars>>
    /\ UNCHANGED <<sentence, target_length, fill_value>>

NextNormalize == Normalize

SpecNormalize == InitNormalize /\ [][NextNormalize]_vars

----------------------------------------------------------------------------
(* The first part of train on its own, lines 58-99: every corpus and every *)
(* order of the vocabulary list, up to the creation of the networks        *)

NextVocabulary ==
    \E corpus \in Corpora, h \in HiddenSizes, e \in 0..MaxEpochs,
       b \in 1..MaxBatch, p \in 1..MaxPrintEvery, f \in 0..MaxForce :
       Train(corpus, h, e, b, p, f)

SpecVocabulary == Init /\ [][NextVocabulary]_vars

----------------------------------------------------------------------------
(* Properties *)

(* C1: normalize_sentence_length(s, L, fill) has length exactly L; up to   *)
(* len(s) its elements are those of s, beyond len(s) they are fill; when   *)
(* len(s) > L it is the first L elements of s.                             *)
C1_NormalizedLength ==
    pc = "norm_done" =>
        /\ Len(normalized) = target_length
        /\ \A i \in 1..target_length :
              normalized[i] = IF i <= Len(sentence) THEN sentence[i] ELSE fill_value

C1_Witness ==
    /\ pc = "norm_done"
    /\ Len(sentence) = 2 /\ target_length = 4
    /\ sentence[1] # fill_value
    /\ normalized[2] = sentence[2] /\ normalized[4] = fill_value

(* C2: the vocabulary built by train gives every symbol of the corpus an   *)
(* index in [0, |V|), |V| the number of distinct symbols, and distinct     *)
(* symbols distinct indices.                                               *)
C2_VocabularyIndices ==
    (lastOp = "train" /\ pc # "idle") =>
        LET mapping == Get(symbol_mapping)
            V == TokenSet(terms)
        IN  /\ ~IsNone(symbol_mapping)
            /\ \A i \in DOMAIN terms : \A k \in DOMAIN get_symbols(terms[i]) :
                  /\ get_symbols(terms[i])[k] \in DOMAIN mapping
                  /\ mapping[get_symbols(terms[i])[k]] \in 0..(Cardinality(V) - 1)
            /\ \A x, y \in V : x # y => mapping[x] # mapping[y]

C2_Witness ==
    /\ lastOp = "train" /\ pc = "epoch"
    /\ Len(terms) = 3 /\ terms[1] = terms[3]
    /\ Cardinality(TokenSet(terms)) = 2
    /\ Get(symbol_mapping)[<<"+">>] = 0

(* C3: on a vectorizer on which neither train nor load_weights has         *)
(* completed, term_to_vector fails with NotTrainedError and leaves the     *)
(* vocabulary and the model unset.                                         *)
C3_NotTrainedError ==
    (lastOp = "term_to_vector" /\ completed = {}) =>
        /\ err = "NotTrainedError"
        /\ IsNone(symbol_mapping) /\ IsNone(model)

(* C4: after save_weights(path) on a trained vectorizer and load_weights   *)
(* (path) on any vectorizer, the loading vectorizer holds the saved        *)
(* (vocabulary, encoder, decoder) bundle, and term_to_vector gives for     *)
(* every term what it gave before the save.                                *)
C4_SaveLoadRoundTrip ==
    (/\ lastOp = "load_weights"
     /\ ~IsNone(files[model_path])
     /\ ~IsNone(Get(files[model_path])[2])) =>
        LET saved == Get(files[model_path])
        IN  /\ <<symbol_mapping, model, _decoder>> = saved
            /\ \A t \in InferSet :
                  Vectorize(symbol_mapping, model, t) = Vectorize(saved[1], saved[2], t)

(* C5: iterating over train(...) produces exactly n_epochs results, in     *)
(* epoch order, and at each result the current model is the pair after     *)
(* that epoch.                                                             *)
C5_EpochResults ==
    (pc = "exit" /\ err = "None") =>
        /\ yielded = [i \in 1..n_epochs |-> i - 1]
        /\ n_epochs > 0 => model = Some(encoder) /\ _decoder = Some(decoder)

(* C6: on a trained vectorizer term_to_vector does not fail, whatever      *)
(* symbols of the term are absent from the vocabulary; the sequence fed    *)
(* to the encoder is the indices of the known symbols in order followed    *)
(* by one end-of-sequence marker (the marker alone if none is known).      *)
C6_UnknownSymbolsDropped ==
    (lastOp = "term_to_vector" /\ ~IsNone(symbol_mapping) /\ ~IsNone(model)) =>
        /\ err = "None"
        /\ fed = Append(KnownIndices(Get(symbol_mapping), term_text), EOS_token)
        /\ (\A k \in DOMAIN get_symbols(term_text) :
               get_symbols(term_text)[k] \notin DOMAIN Get(symbol_mapping))
           => fed = <<EOS_token>>

(* C7: no vocabulary symbol is assigned the end-of-sequence index, nor     *)
(* the start-of-sequence index.                                            *)
C7_ReservedMarkers ==
    ~IsNone(symbol_mapping) =>
        \A symbol \in DOMAIN Get(symbol_mapping) :
            Get(symbol_mapping)[symbol] \notin {EOS_token, SOS_token}

(* C8: for N terms and batch size B every epoch of train performs exactly  *)
(* floor(N / B) parameter updates, and when N < B train completes with     *)
(* zero updates and no error.                                              *)
C8_UpdatesPerEpoch ==
    (pc = "exit") =>
        /\ Len(terms) < batch_size => err = "None"
        /\ encoder.updates = n_epochs * (Len(terms) \div batch_size)

====
